---- MODULE Spec2Model ----
(***************************************************************************)
(* Event delivery in the transport demos of this repository.               *)
(*                                                                         *)
(* Part I  : the long-polling server and client of 02_long_polling.py      *)
(*           (message log, lock, background_message_generator, long_poll,  *)
(*           run_client).                                                  *)
(* Part II : the WebSocket server of 03_websocket.py (connected_clients,   *)
(*           handle_client, broadcast, server_push_notifications), at the  *)
(*           granularity of its awaits; send tasks run in the order in     *)
(*           which the event loop queued them.  A received message is a    *)
(*           text or a binary frame.  The interruption of the program,     *)
(*           which cancels every task, is not part of the model.           *)
(*                                                                         *)
(* Time.  One tick is one time.sleep(0.5) of long_poll, so 30 s is 60      *)
(* ticks and random.uniform(3, 8) is a whole number of ticks in 6..16.     *)
(* Server instructions take no time: time passes (Tick) only while every   *)
(* server thread is inside time.sleep.  In Spec and SpecReq clients and    *)
(* the network are not timed: a client may take arbitrarily long to issue  *)
(* or read a request.  In SpecLive a started client loops without delay.   *)
(* In SpecLate a handler thread may be resumed late from its sleep.        *)
(* time.time() - start_time is kept as the variable elapsed.               *)
(***************************************************************************)
EXTENDS Integers, Sequences, FiniteSets, TLC

\* ---------------------------------------------------------------- bounds
\* The generator loops forever; the model stops it after MaxMsgs appends.
MaxMsgs == 4
\* Cursors a raw /poll request may carry: -1..MaxCursor.
MaxCursor == 4
\* Chat messages received plus notifications pushed by the WebSocket server.
MaxItems == 2
\* Connection objects a registry is drawn from, and discards applied to it.
MaxSockets == 4
MaxDiscards == 3
MaxPolls == 6
MaxClock == 7
MaxEvents == 3
MaxLines == 5

\* ------------------------------------------------------ program constants
\* timeout = 30 (seconds), in ticks of 0.5 s.
Timeout == 60
\* time.sleep(0.5), in ticks.
SleepTicks == 1
\* random.uniform(3, 8), in ticks.
GenMin == 6
GenMax == 16

Clients == {"c1", "c2"}
RawCallers == {"c1"}
FlakyClients == {"c1"}

VARIABLES
    \* ---- 02_long_polling.py, run_server
    messages,      \* the log: a sequence of records [id |-> n]
    message_id,    \* the id counter
    lock,          \* threading.Lock: "free", "gen" or the client whose handler holds it
    gen_pc,        \* background_message_generator: "sleep", "lock", "bump", "append",
                   \* "unlocked"
    gen_slept,     \* ticks the generator has spent in its current time.sleep
    \* ---- one request/handler slot per client
    pc,            \* "off" | "ready" | "loop" | "lock" | "crit" | "unlocked" |
                   \* "sleep" | "resp"
    h_last_id,     \* long_poll's local last_id (the request's cursor)
    elapsed,       \* time.time() - start_time of the request in flight
    sleep_left,    \* ticks left of long_poll's time.sleep(0.5)
    resp,          \* the response: [status, messages]
    \* ---- 02_long_polling.py, run_client
    last_id,       \* the client's cursor
    received,      \* every message the client was handed, in order of receipt
    \* ---- history variables (observers, never read by the program)
    start_len,     \* Len(messages) when the request arrived
    slept,         \* whether this call of long_poll executed a sleep
    hit,           \* an item with id > cursor was appended before the deadline
    appends,       \* number of appends performed
    gone_at        \* elapsed when the peer closed the request's connection, or -1

lpvars == <<messages, message_id, lock, gen_pc, gen_slept, pc, h_last_id, elapsed,
            sleep_left, resp, last_id, received, start_len, slept, hit, appends,
            gone_at>>

VARIABLES
    \* ---- 03_websocket.py, run_server
    connected_clients,   \* the registry: a set of connections
    client_counter,
    message_count,       \* [sent, received]
    notification_count,  \* server_push_notifications' local counter
    ws_state,            \* per connection: "new" | "open" | "closed"
    wpc,                 \* handle_client: "none" | "join" | "recv" | "chat" |
                         \* "leave" | "leave_exc" (the leave broadcast, without
                         \* and with an exception of the loop body to re-raise) |
                         \* "done" (returned) | "raised" (ended by the exception
                         \* of the loop body) | "crashed" (ended by an exception
                         \* of gather or discard)
    client_id,           \* handle_client's local client_id
    push_pc,             \* server_push_notifications: "sleep" | "gather" | "crashed"
    bc,                  \* per caller, its broadcast call: [item, tasks], tasks the
                         \* send tasks created: recipient -> "pending" | "draining" |
                         \* "sent" | "failed"
    inbox,               \* per connection, the items written to it, in order
    calls,               \* broadcast calls made so far that did not raise: the
                         \* position of a call's send tasks in the event loop's
                         \* queue of ready tasks
    \* ---- history variables
    snap,                \* per caller: connected_clients when its broadcast was called
    att,                 \* per caller: sends attempted by its broadcast, per connection
    dropped,             \* connections a send to which failed in a returned broadcast
    pushed               \* notification broadcasts made so far

wsvars == <<connected_clients, client_counter, message_count, notification_count,
            ws_state, wpc, client_id, push_pc, bc, inbox, calls, snap, att,
            dropped, pushed>>

VARIABLES
    \* ---- connected_clients.discard(websocket), on any registry and connection
    d_reg,               \* a registry: a set of connections
    d_conn,              \* the connection that is discarded from it, or 0
    d_count,             \* how many times it has been discarded
    d_raised             \* whether a discard raised an exception

dvars == <<d_reg, d_conn, d_count, d_raised>>

VARIABLES
    \* ---- 01_polling.py, run_server
    connection_count,    \* connection_count
    p_message_count,     \* message_count of the polling server
    p_clients,           \* clients: the dict as its items in insertion order
    t_pc,                \* per request thread: "idle" | "load" | "store" |
                         \* "touch" | "test" | "mload" | "mstore" | "ret"
    t_client_id,         \* per request thread: client_id of poll
    t_reg,               \* per request thread: the value read for a +=
    t_n,                 \* per request thread: its request number (history)
    p_arrivals,          \* requests counted so far (history)
    p_log,               \* the responses sent (history)
    chk_pc,              \* check_disconnected_clients: "sleep" | "del"
    chk_left,            \* seconds left of its time.sleep(2)
    disconnected,        \* its list disconnected
    p_clock              \* time.time(), in seconds

pvars == <<connection_count, p_message_count, p_clients, t_pc, t_client_id,
           t_reg, t_n, p_arrivals, p_log, chk_pc, chk_left, disconnected,
           p_clock>>

VARIABLES
    \* ---- 04_sse.py, run_server: one generate_events() per connection
    s_pc,                \* per connection: "off" | "retry" | "gen" | "sleep"
    event_id,            \* per connection: event_id of its generator
    s_out,               \* per connection: the chunks yielded so far
    \* ---- 04_sse.py, run_client
    c_pc,                \* "reading" | "crashed"
    c_seen,              \* the lines iter_lines() has delivered (history)
    current_event,       \* current_event
    event_count          \* event_count

svars == <<s_pc, event_id, s_out, c_pc, c_seen, current_event, event_count>>

\* The state of the programs other than the two long-lived servers.
ovars == <<dvars, pvars, svars>>

vars == <<lpvars, wsvars, dvars, pvars, svars>>

\* ---------------------------------------------------------------- helpers
Range(s) == {s[i] : i \in 1..Len(s)}

Ids(s) == [i \in 1..Len(s) |-> s[i].id]

Max2(a, b) == IF a >= b THEN a ELSE b

m_MaxId(cur, msgs) == IF msgs = <<>> THEN cur ELSE Head(msgs).id

RECURSIVE MaxId(_, _)
\* for msg in data['messages']: last_id = max(last_id, msg['id'])
MaxId(cur, msgs) ==
    IF msgs = <<>> THEN cur
    ELSE MaxId(Max2(cur, Head(msgs).id), Tail(msgs))

m_NewMessages(msgs, last) == SelectSeq(msgs, LAMBDA m : m.id >= last)

m_NewMessagesSkip(msgs, last) == SelectSeq(msgs, LAMBDA m : m.id > last + 1)

m_NewMessagesFirst(msgs, last) ==
    LET s == SelectSeq(msgs, LAMBDA m : m.id > last) IN
      IF s = <<>> THEN s ELSE <<Head(s)>>

m_NewMessagesLast(msgs, last) ==
    LET s == SelectSeq(msgs, LAMBDA m : m.id > last) IN
      IF s = <<>> THEN s ELSE <<s[Len(s)]>>

\* new_messages = [m for m in messages if m['id'] > last_id]
NewMessages(msgs, last) == SelectSeq(msgs, LAMBDA m : m.id > last)

NoResp == [status |-> "none", messages |-> <<>>]

InFlight(c) == pc[c] \in {"loop", "lock", "crit", "unlocked", "sleep"}

\* ------------------------------------------------------------------- Init
LPInitWith(pc0) ==
    /\ messages = <<>>
    /\ message_id = 0
    /\ lock = "free"
    /\ gen_pc = "sleep"
    /\ gen_slept = 0
    /\ pc = pc0
    /\ h_last_id = [c \in Clients |-> 0]
    /\ elapsed = [c \in Clients |-> 0]
    /\ sleep_left = [c \in Clients |-> 0]
    /\ resp = [c \in Clients |-> NoResp]
    /\ last_id = [c \in Clients |-> 0]
    /\ received = [c \in Clients |-> <<>>]
    /\ start_len = [c \in Clients |-> 0]
    /\ slept = [c \in Clients |-> FALSE]
    /\ hit = [c \in Clients |-> FALSE]
    /\ appends = 0
    /\ gone_at = [c \in Clients |-> -1]

LPInit == LPInitWith([c \in Clients |-> "ready"])

\* ------------------------------------------- background_message_generator
\* time.sleep(random.uniform(3, 8)) is over; the thread reaches "with lock".
\* The duration drawn is any number of ticks in GenMin..GenMax: the sleep may
\* end once GenMin ticks have passed and does end before tick GenMax + 1.
GenWake ==
    /\ gen_pc = "sleep"
    /\ gen_slept \in GenMin..GenMax
    /\ message_id < MaxMsgs
    /\ gen_pc' = "lock"
    /\ UNCHANGED <<wsvars, ovars, gone_at, messages, message_id, lock,
                   gen_slept, pc, h_last_id, elapsed, sleep_left, resp, last_id,
                   received, start_len, slept, hit, appends>>

\* with lock: (acquire)
GenAcquire ==
    /\ gen_pc = "lock"
    /\ lock = "free"
    /\ lock' = "gen"
    /\ gen_pc' = "bump"
    /\ UNCHANGED <<wsvars, ovars, gone_at, messages, message_id, gen_slept, pc,
                   h_last_id, elapsed, sleep_left, resp, last_id, received,
                   start_len, slept, hit, appends>>

m_GenBump ==
    /\ gen_pc = "bump"
    /\ message_id' = message_id + 2
    /\ gen_pc' = "append"
    /\ UNCHANGED <<wsvars, ovars, gone_at, messages, lock, gen_slept, pc,
                   h_last_id, elapsed, sleep_left, resp, last_id, received,
                   start_len, slept, hit, appends>>

\* message_id += 1
GenBump ==
    /\ gen_pc = "bump"
    /\ message_id' = message_id + 1
    /\ gen_pc' = "append"
    /\ UNCHANGED <<wsvars, ovars, gone_at, messages, lock, gen_slept, pc,
                   h_last_id, elapsed, sleep_left, resp, last_id, received,
                   start_len, slept, hit, appends>>

m_AppendTo(msgs, m) == <<m>> \o msgs

\* messages.append(new_msg)
AppendTo(msgs, m) == Append(msgs, m)

\* messages.append(new_msg); the with block is left and the lock released.
GenAppend ==
    /\ gen_pc = "append"
    /\ messages' = AppendTo(messages, [id |-> message_id])
    /\ lock' = "free"
    /\ gen_pc' = "unlocked"
    /\ appends' = appends + 1
    /\ hit' = [c \in Clients |->
                 hit[c] \/ (InFlight(c) /\ message_id > h_last_id[c]
                            /\ elapsed[c] < Timeout)]
    /\ UNCHANGED <<wsvars, ovars, gone_at, message_id, gen_slept, pc, h_last_id,
                   elapsed, sleep_left, resp, last_id, received, start_len,
                   slept>>

\* The next turn of while True: time.sleep(random.uniform(3, 8)) is called.
GenSleep ==
    /\ gen_pc = "unlocked"
    /\ gen_pc' = "sleep"
    /\ gen_slept' = 0
    /\ UNCHANGED <<wsvars, ovars, gone_at, messages, message_id, lock, pc,
                   h_last_id, elapsed, sleep_left, resp, last_id, received,
                   start_len, slept, hit, appends>>

\* -------------------------------------------------------------- long_poll
\* The request arrives: last_id = int(request.args.get('last_id', 0)),
\* start_time = time.time().
Arrive(c, cur) ==
    /\ pc[c] = "ready"
    /\ pc' = [pc EXCEPT ![c] = "loop"]
    /\ h_last_id' = [h_last_id EXCEPT ![c] = cur]
    /\ elapsed' = [elapsed EXCEPT ![c] = 0]
    /\ sleep_left' = [sleep_left EXCEPT ![c] = 0]
    /\ resp' = [resp EXCEPT ![c] = NoResp]
    /\ start_len' = [start_len EXCEPT ![c] = Len(messages)]
    /\ slept' = [slept EXCEPT ![c] = FALSE]
    /\ hit' = [hit EXCEPT ![c] = FALSE]
    /\ UNCHANGED <<wsvars, ovars, gone_at, messages, message_id, lock, gen_pc,
                   gen_slept, last_id, received, appends>>

m_LoopTest(c) == elapsed[c] <= Timeout

m_LoopTestEarly(c) == elapsed[c] < Timeout - 1

\* time.time() - start_time < timeout
LoopTest(c) == elapsed[c] < Timeout

\* while ...: enter the body, or fall through to the timed-out response.
LoopCheck(c) ==
    /\ pc[c] = "loop"
    /\ IF LoopTest(c)
       THEN /\ pc' = [pc EXCEPT ![c] = "lock"]
            /\ resp' = resp
       ELSE /\ pc' = [pc EXCEPT ![c] = "resp"]
            /\ resp' = [resp EXCEPT ![c] = [status |-> "timeout", messages |-> <<>>]]
    /\ UNCHANGED <<wsvars, ovars, gone_at, messages, message_id, lock, gen_pc,
                   gen_slept, h_last_id, elapsed, sleep_left, last_id, received,
                   start_len, slept, hit, appends>>

m_CanAcquire(c) == TRUE

\* threading.Lock: acquire blocks while another thread holds the lock.
CanAcquire(c) == lock = "free"

\* with lock: (acquire)
Acquire(c) ==
    /\ pc[c] = "lock"
    /\ CanAcquire(c)
    /\ lock' = c
    /\ pc' = [pc EXCEPT ![c] = "crit"]
    /\ UNCHANGED <<wsvars, ovars, gone_at, messages, message_id, gen_pc,
                   gen_slept, h_last_id, elapsed, sleep_left, resp, last_id,
                   received, start_len, slept, hit, appends>>

m_LockAfterCheck(c, found) == IF found THEN "free" ELSE c

\* The with block is left, by the return or at its end, before time.sleep:
\* the lock is released either way.
LockAfterCheck(c, found) == "free"

\* The filter and the "if new_messages: return" under the lock; leaving the
\* with block, by the return or at its end, releases the lock.  After an
\* empty read time.sleep(0.5) is called in a later step of the thread.
CheckRelease(c) ==
    /\ pc[c] = "crit"
    /\ lock = c
    /\ LET new_messages == NewMessages(messages, h_last_id[c]) IN
         /\ IF new_messages # <<>>
            THEN /\ resp' = [resp EXCEPT ![c] =
                        [status |-> "new_data", messages |-> new_messages]]
                 /\ pc' = [pc EXCEPT ![c] = "resp"]
            ELSE /\ pc' = [pc EXCEPT ![c] = "unlocked"]
                 /\ resp' = resp
         /\ lock' = LockAfterCheck(c, new_messages # <<>>)
    /\ UNCHANGED <<wsvars, ovars, gone_at, messages, message_id, gen_pc,
                   gen_slept, h_last_id, elapsed, sleep_left, last_id, received,
                   start_len, slept, hit, appends>>

\* time.sleep(0.5) is called.
StartSleep(c) ==
    /\ pc[c] = "unlocked"
    /\ pc' = [pc EXCEPT ![c] = "sleep"]
    /\ sleep_left' = [sleep_left EXCEPT ![c] = SleepTicks]
    /\ slept' = [slept EXCEPT ![c] = TRUE]
    /\ UNCHANGED <<wsvars, ovars, gone_at, messages, message_id, lock, gen_pc,
                   gen_slept, h_last_id, elapsed, resp, last_id, received,
                   start_len, hit, appends>>

\* time.sleep(0.5) is over.
Wake(c) ==
    /\ pc[c] = "sleep"
    /\ sleep_left[c] = 0
    /\ pc' = [pc EXCEPT ![c] = "loop"]
    /\ UNCHANGED <<wsvars, ovars, gone_at, messages, message_id, lock, gen_pc,
                   gen_slept, h_last_id, elapsed, sleep_left, resp, last_id,
                   received, start_len, slept, hit, appends>>

\* ------------------------------------------------------------- run_client
\* requests.get(f'http://localhost:5001/poll?last_id={last_id}', timeout=35)
ClientRequest(c) == Arrive(c, last_id[c])

\* The response has left the server: the call's locals are gone.
EndCall(c) ==
    /\ pc[c] = "resp"
    /\ pc' = [pc EXCEPT ![c] = "ready"]
    /\ h_last_id' = [h_last_id EXCEPT ![c] = 0]
    /\ elapsed' = [elapsed EXCEPT ![c] = 0]
    /\ resp' = [resp EXCEPT ![c] = NoResp]
    /\ start_len' = [start_len EXCEPT ![c] = 0]
    /\ slept' = [slept EXCEPT ![c] = FALSE]
    /\ hit' = [hit EXCEPT ![c] = FALSE]
    /\ gone_at' = [gone_at EXCEPT ![c] = -1]
    /\ UNCHANGED <<wsvars, ovars, messages, message_id, lock, gen_pc, gen_slept,
                   sleep_left, appends>>

\* data = response.json(); new_data advances last_id, timeout leaves it.
ClientReceive(c) ==
    /\ EndCall(c)
    /\ IF resp[c].status = "new_data"
       THEN /\ last_id' = [last_id EXCEPT ![c] = MaxId(last_id[c], resp[c].messages)]
            /\ received' = [received EXCEPT ![c] = received[c] \o resp[c].messages]
       ELSE UNCHANGED <<last_id, received>>

m_ClientFail(c) ==
    /\ EndCall(c)
    /\ last_id' = [last_id EXCEPT ![c] = 0]
    /\ UNCHANGED received

\* requests.get raises ConnectionError or Timeout instead of returning the
\* response: the except clauses print (and sleep) and the loop goes on.
ClientFail(c) ==
    /\ EndCall(c)
    /\ UNCHANGED <<last_id, received>>

\* ------------------------------------------------------- any HTTP caller
\* GET /poll?last_id=cur with a cursor of the caller's choosing.
RawRequest(c) == \E cur \in -1..MaxCursor : Arrive(c, cur)

\* The caller reads the response and keeps nothing.
RawReceive(c) ==
    /\ EndCall(c)
    /\ UNCHANGED <<last_id, received>>

\* The peer closes the connection of a request whose call is suspended in
\* time.sleep (or the server process is told to shut down).  long_poll has no
\* code that observes either: nothing of the call changes.
PeerGone(c) ==
    /\ pc[c] = "sleep"
    /\ gone_at[c] = -1
    /\ gone_at' = [gone_at EXCEPT ![c] = elapsed[c]]
    /\ UNCHANGED <<wsvars, ovars, messages, message_id, lock, gen_pc, gen_slept,
                   pc, h_last_id, elapsed, sleep_left, resp, last_id, received,
                   start_len, slept, hit, appends>>

\* ------------------------------------------------------------------- time
Dec(n) == IF n > 0 THEN n - 1 ELSE 0

GenSleeping == gen_pc = "sleep" /\ (gen_slept < GenMax \/ message_id >= MaxMsgs)

\* Half a second passes: every server thread is inside time.sleep.  A client
\* whose pc is in `untimed` may let any amount of time pass.
TickWhen(untimed) ==
    /\ GenSleeping
    /\ \A c \in Clients : pc[c] \in untimed
                          \/ (pc[c] = "sleep" /\ sleep_left[c] > 0)
    /\ gen_slept < GenMax \/ \E c \in Clients : pc[c] = "sleep"
    /\ gen_slept' = IF gen_slept < GenMax THEN gen_slept + 1 ELSE gen_slept
    /\ sleep_left' = [c \in Clients |-> Dec(sleep_left[c])]
    /\ elapsed' = [c \in Clients |->
                     IF pc[c] = "sleep" /\ elapsed[c] <= Timeout
                     THEN elapsed[c] + 1 ELSE elapsed[c]]
    /\ UNCHANGED <<wsvars, ovars, gone_at, messages, message_id, lock, gen_pc,
                   pc, h_last_id, resp, last_id, received, start_len, slept,
                   hit, appends>>

\* Clients and the network are untimed.
Tick == TickWhen({"ready", "resp"})

\* run_client as written re-requests as soon as a response is read (no wait
\* between requests): once started, its steps take no time either.
TickPrompt == TickWhen({"off"})

\* time.sleep(0.5) suspends the handler for at least half a second: the
\* thread may be resumed later than that.
TickLate == TickWhen({"ready", "resp", "sleep"})

\* python 02_long_polling.py client
ClientStart(c) ==
    /\ pc[c] = "off"
    /\ pc' = [pc EXCEPT ![c] = "ready"]
    /\ UNCHANGED <<wsvars, ovars, gone_at, messages, message_id, lock, gen_pc,
                   gen_slept, h_last_id, elapsed, sleep_left, resp, last_id,
                   received, start_len, slept, hit, appends>>

\* ======================================================= 03_websocket.py
\* The connection objects, named in the order in which they are accepted.
Conns == {"w1", "w2"}

Earlier(w) == IF w = "w1" THEN {} ELSE {"w1"}

Callers == Conns \cup {"push"}

NoCall == [item |-> [type |-> "none", n |-> 0, seq |-> 0], tasks |-> <<>>]

WSInit ==
    /\ connected_clients = {}
    /\ client_counter = 0
    /\ message_count = [sent |-> 0, received |-> 0]
    /\ notification_count = 0
    /\ ws_state = [w \in Conns |-> "new"]
    /\ wpc = [w \in Conns |-> "none"]
    /\ client_id = [w \in Conns |-> 0]
    /\ push_pc = "sleep"
    /\ bc = [k \in Callers |-> NoCall]
    /\ inbox = [w \in Conns |-> <<>>]
    /\ calls = 0
    /\ snap = [k \in Callers |-> {}]
    /\ att = [k \in Callers |-> [w \in Conns |-> 0]]
    /\ dropped = {}
    /\ pushed = 0

\* ---------------------------------------------------------------- broadcast
\* broadcast(data) up to its await, called with the registry cc and the
\* counters mc: "if not connected_clients: return", the sent count, and one
\* task per member of connected_clients, created without any await in between.
\* asyncio.create_task puts each task at the end of the loop's ready queue.
StartBroadcast(k, type, n, cc, mc) ==
    /\ calls' = calls + 1
    /\ IF cc = {}
       THEN /\ message_count' = mc
            /\ UNCHANGED <<bc, snap, att>>
       ELSE /\ message_count' = [mc EXCEPT !.sent = mc.sent + Cardinality(cc)]
            /\ bc' = [bc EXCEPT ![k] =
                       [item |-> [type |-> type, n |-> n, seq |-> calls + 1],
                        tasks |-> [w \in cc |-> "pending"]]]
            /\ snap' = [snap EXCEPT ![k] = cc]
            /\ att' = [att EXCEPT ![k] = [w \in Conns |-> 0]]

\* The caller is suspended in "await asyncio.gather(...)".
Gathering(k) == IF k = "push" THEN push_pc = "gather"
                ELSE wpc[k] \in {"join", "chat", "leave", "leave_exc"}

m_SendTargets(k) ==
    {w \in connected_clients \cup DOMAIN bc[k].tasks :
        w \in DOMAIN bc[k].tasks => bc[k].tasks[w] = "pending"}

\* The connections for which broadcast k has a send task that has not run yet.
SendTargets(k) == {w \in DOMAIN bc[k].tasks : bc[k].tasks[w] = "pending"}

m_Runnable(k) == TRUE

\* The event loop starts ready tasks in the order in which they were created:
\* the tasks of broadcast k start once every task of the broadcasts called
\* earlier has started; a task that waits inside send holds up nothing.  The
\* tasks of one broadcast start in the iteration order of the set.
Runnable(k) ==
    \A j \in Callers \ {k} :
        (bc[j] # NoCall /\ bc[j].item.seq < bc[k].item.seq) => SendTargets(j) = {}

\* client.send(message): the item is written to an open connection; on a
\* closed one send raises ConnectionClosed.
SendOutcome(w) == IF ws_state[w] = "open" THEN "sent" ELSE "failed"

\* One task of broadcast k starts client.send(message): the item is written
\* to the connection, and send returns at once or, when the connection's
\* write buffer is full, waits for it to drain.
SendTask(k, w, wait) ==
    /\ Gathering(k)
    /\ w \in SendTargets(k)
    /\ Runnable(k)
    /\ att' = [att EXCEPT ![k][w] = @ + 1]
    /\ LET out == SendOutcome(w) IN
         /\ bc' = [bc EXCEPT ![k].tasks =
                     [x \in DOMAIN bc[k].tasks |->
                         IF x # w THEN bc[k].tasks[x]
                         ELSE IF out = "sent" /\ wait THEN "draining" ELSE out]]
         /\ inbox' = IF out = "sent"
                     THEN [inbox EXCEPT ![w] = Append(@, bc[k].item)]
                     ELSE inbox
    /\ UNCHANGED <<lpvars, ovars, pushed, dropped, connected_clients, client_counter,
                   message_count, notification_count, ws_state, wpc, client_id,
                   push_pc, calls, snap>>

\* A send that waited for the write buffer returns, or raises
\* ConnectionClosed when the connection was closed in the meantime.
DrainDone(k, w) ==
    /\ Gathering(k)
    /\ w \in DOMAIN bc[k].tasks
    /\ bc[k].tasks[w] = "draining"
    /\ bc' = [bc EXCEPT ![k].tasks[w] = SendOutcome(w)]
    /\ UNCHANGED <<lpvars, ovars, pushed, dropped, connected_clients,
                   client_counter, message_count, notification_count, ws_state,
                   wpc, client_id, push_pc, inbox, calls, snap, att>>

m_GatherRaises(tasks) == \E w \in DOMAIN tasks : tasks[w] = "failed"

\* await asyncio.gather(*tasks, return_exceptions=True): exceptions are
\* returned in the result list, never raised.
GatherRaises(tasks) == FALSE

\* broadcast returns: its message, tasks and results are dropped.
EndBroadcast(k) ==
    /\ dropped' = dropped \cup {w \in DOMAIN bc[k].tasks : bc[k].tasks[w] = "failed"}
    /\ bc' = [bc EXCEPT ![k] = NoCall]
    /\ snap' = [snap EXCEPT ![k] = {}]
    /\ att' = [att EXCEPT ![k] = [w \in Conns |-> 0]]

m_AllDone(k) ==
    \/ \A w \in DOMAIN bc[k].tasks : bc[k].tasks[w] \in {"sent", "failed"}
    \/ \E w \in DOMAIN bc[k].tasks : bc[k].tasks[w] = "failed"

\* gather returns when every task has finished, whatever its outcome.
AllDone(k) == \A w \in DOMAIN bc[k].tasks : bc[k].tasks[w] \in {"sent", "failed"}

\* ------------------------------------------------------------- set.discard
m_Discard(S, w) == [set |-> S \ {w}, raised |-> w \notin S]

\* connected_clients.discard(websocket): the set without w; discard raises
\* nothing, whether or not w is a member.
Discard(S, w) == [set |-> S \ {w}, raised |-> FALSE]

Sockets == 1..MaxSockets

\* Any registry, and any connection, member or not.
DInit ==
    /\ d_reg \in SUBSET Sockets
    /\ d_conn \in Sockets
    /\ d_count = 0
    /\ d_raised = FALSE

\* finally: connected_clients.discard(websocket), once more.
Unregister ==
    /\ d_count < MaxDiscards
    /\ LET d == Discard(d_reg, d_conn) IN
         /\ d_reg' = d.set
         /\ d_raised' = (d_raised \/ d.raised)
    /\ d_count' = d_count + 1
    /\ UNCHANGED <<lpvars, wsvars, pvars, svars, d_conn>>

m_Add(cc, w) == cc

\* connected_clients.add(websocket)
Add(cc, w) == cc \cup {w}

\* ------------------------------------------------------------ handle_client
\* A connection is accepted: the counter, the registration and the join
\* broadcast up to its await.
Connect(w) ==
    /\ ws_state[w] = "new"
    /\ \A x \in Earlier(w) : ws_state[x] # "new"
    /\ ws_state' = [ws_state EXCEPT ![w] = "open"]
    /\ client_counter' = client_counter + 1
    /\ client_id' = [client_id EXCEPT ![w] = client_counter + 1]
    /\ connected_clients' = Add(connected_clients, w)
    /\ StartBroadcast(w, "join", client_counter + 1, Add(connected_clients, w),
                      message_count)
    /\ wpc' = [wpc EXCEPT ![w] = "join"]
    /\ UNCHANGED <<lpvars, ovars, pushed, dropped, notification_count, push_pc,
                   inbox>>

\* The gather of a handler's broadcast returns; the handler goes on: after the
\* join or a chat broadcast to "async for"; after the leave broadcast the
\* finally block is over and the handler returns, or the exception that ended
\* the loop is raised again.
HandlerGatherDone(w) ==
    /\ wpc[w] \in {"join", "chat", "leave", "leave_exc"}
    /\ AllDone(w)
    /\ wpc' = [wpc EXCEPT ![w] =
                 IF GatherRaises(bc[w].tasks) THEN "crashed"
                 ELSE IF wpc[w] = "leave" THEN "done"
                 ELSE IF wpc[w] = "leave_exc" THEN "raised"
                 ELSE "recv"]
    /\ EndBroadcast(w)
    /\ UNCHANGED <<lpvars, ovars, pushed, connected_clients, client_counter,
                   message_count, notification_count, ws_state, client_id,
                   push_pc, inbox, calls>>

\* finally: connected_clients.discard(websocket) and the leave broadcast up to
\* its await, with the counters mc.  The block runs however the try was left;
\* exc tells that it was left by an exception other than ConnectionClosed,
\* which is raised again when the block ends.  The connection is not looked
\* at: it is discarded open or closed.  An exception raised by the discard
\* would leave the block before the broadcast.
Finally(w, mc, exc) ==
    LET d == Discard(connected_clients, w) IN
      /\ connected_clients' = d.set
      /\ IF d.raised
         THEN /\ wpc' = [wpc EXCEPT ![w] = "crashed"]
              /\ message_count' = mc
              /\ UNCHANGED <<bc, calls, snap, att>>
         ELSE /\ StartBroadcast(w, "leave", client_id[w], d.set, mc)
              /\ wpc' = [wpc EXCEPT ![w] =
                           IF d.set # {}
                           THEN (IF exc THEN "leave_exc" ELSE "leave")
                           ELSE (IF exc THEN "raised" ELSE "done")]

\* What "async for message in websocket" can yield: a text frame as a str, a
\* binary frame as bytes.
Frames == {"text", "binary"}

\* message = json.dumps(data, ensure_ascii=False), data holding the received
\* message: bytes are not JSON serializable, json.dumps raises TypeError.
DumpsRaises(frame) == frame = "binary"

\* async for message in websocket: a message is taken and broadcast.  The
\* message may have arrived before the connection closed: messages received
\* are handed to the handler before the close is.  With a binary message
\* broadcast counts the recipients and raises TypeError at json.dumps, inside
\* the try: the finally block follows at once.
RecvMessage(w, frame) ==
    /\ wpc[w] = "recv"
    /\ message_count.received + notification_count < MaxItems
    /\ LET mc == [message_count EXCEPT !.received = @ + 1] IN
         IF connected_clients # {} /\ DumpsRaises(frame)
         THEN Finally(w, [mc EXCEPT !.sent = @ + Cardinality(connected_clients)],
                      TRUE)
         ELSE /\ StartBroadcast(w, "chat", message_count.received + 1,
                                connected_clients, mc)
              /\ wpc' = [wpc EXCEPT ![w] =
                           IF connected_clients = {} THEN "recv" ELSE "chat"]
              /\ UNCHANGED connected_clients
    /\ UNCHANGED <<lpvars, ovars, pushed, dropped, client_counter,
                   notification_count, ws_state, client_id, push_pc, inbox>>

\* The peer closes the connection, or it breaks.
PeerClose(w) ==
    /\ ws_state[w] = "open"
    /\ ws_state' = [ws_state EXCEPT ![w] = "closed"]
    /\ UNCHANGED <<lpvars, ovars, pushed, dropped, connected_clients,
                   client_counter, message_count, notification_count, wpc,
                   client_id, push_pc, bc, inbox, calls, snap, att>>

\* "async for" ends or raises ConnectionClosed on a closed connection that has
\* no message left: except ... pass, then the finally block.
Leave(w) ==
    /\ wpc[w] = "recv"
    /\ ws_state[w] = "closed"
    /\ Finally(w, message_count, FALSE)
    /\ UNCHANGED <<lpvars, ovars, pushed, dropped, client_counter,
                   notification_count, ws_state, client_id, push_pc, inbox>>

\* handle_client has ended on a connection that is still open: the server
\* that was given the handler (websockets.serve) closes the connection.
ServerClose(w) ==
    /\ wpc[w] \in {"done", "raised", "crashed"}
    /\ ws_state[w] = "open"
    /\ ws_state' = [ws_state EXCEPT ![w] = "closed"]
    /\ UNCHANGED <<lpvars, ovars, pushed, dropped, connected_clients,
                   client_counter, message_count, notification_count, wpc,
                   client_id, push_pc, bc, inbox, calls, snap, att>>

\* ------------------------------------------------ server_push_notifications
m_PushNumber(cc, count) == count + 1

\* if connected_clients: notification_count += 1
PushNumber(cc, count) == IF cc # {} THEN count + 1 ELSE count

\* asyncio.sleep(random.uniform(5, 10)) is over: with a client connected the
\* next notification is broadcast, up to the await; with none the loop goes
\* back to sleep.
PushNotify ==
    /\ push_pc = "sleep"
    /\ message_count.received + notification_count < MaxItems
    /\ notification_count' = PushNumber(connected_clients, notification_count)
    /\ IF connected_clients # {}
       THEN /\ StartBroadcast("push", "notification", notification_count',
                              connected_clients, message_count)
            /\ push_pc' = "gather"
            /\ pushed' = pushed + 1
       ELSE UNCHANGED <<message_count, bc, calls, snap, att, push_pc, pushed>>
    /\ UNCHANGED <<lpvars, ovars, dropped, connected_clients,
                   client_counter, ws_state, wpc, client_id, inbox>>

PushGatherDone ==
    /\ push_pc = "gather"
    /\ AllDone("push")
    /\ push_pc' = IF GatherRaises(bc["push"].tasks) THEN "crashed" ELSE "sleep"
    /\ EndBroadcast("push")
    /\ UNCHANGED <<lpvars, ovars, pushed, connected_clients, client_counter,
                   message_count, notification_count, ws_state, wpc, client_id,
                   inbox, calls>>

WSHandler(w) ==
    \/ Connect(w)
    \/ HandlerGatherDone(w)
    \/ \E frame \in Frames : RecvMessage(w, frame)
    \/ PeerClose(w)
    \/ Leave(w)
    \/ ServerClose(w)

Push == PushNotify \/ PushGatherDone

\* The event loop runs one ready step at a time.
NextWS ==
    \/ \E w \in Conns : WSHandler(w)
    \/ Push
    \/ \E k \in Callers : \E w \in Conns : \E wait \in BOOLEAN :
          SendTask(k, w, wait)
    \/ \E k \in Callers : \E w \in Conns : DrainDone(k, w)

\* --------------------------------------------------------- specifications
Generator == GenWake \/ GenAcquire \/ GenBump \/ GenAppend \/ GenSleep

Handler(c) ==
    LoopCheck(c) \/ Acquire(c) \/ CheckRelease(c) \/ StartSleep(c) \/ Wake(c)

Client(c) == ClientRequest(c) \/ ClientReceive(c)

Raw(c) == RawRequest(c) \/ RawReceive(c)

\* ========================================================= 01_polling.py
PollThreads == {"t1", "t2"}
PollClients == {"a", "b"}
CheckedThreads == {"t1"}

client_timeout == 5
CheckSleep == 2
MessageEvery == 5

\* clients = {}, with no request in progress and the checker thread started.
PollInit ==
    /\ connection_count = 0
    /\ p_message_count = 0
    /\ p_clients = <<>>
    /\ t_pc = [t \in PollThreads |-> "idle"]
    /\ t_client_id = [t \in PollThreads |-> "a"]
    /\ t_reg = [t \in PollThreads |-> 0]
    /\ t_n = [t \in PollThreads |-> 0]
    /\ p_arrivals = 0
    /\ p_log = {}
    /\ chk_pc = "sleep"
    /\ chk_left = CheckSleep
    /\ disconnected = <<>>
    /\ p_clock = 0

\* A dict: its items in insertion order.
HasKey(d, k) == \E i \in 1..Len(d) : d[i].key = k
SetItem(d, k, v) ==
    IF HasKey(d, k)
    THEN [i \in 1..Len(d) |-> IF d[i].key = k THEN [key |-> k, val |-> v]
                                               ELSE d[i]]
    ELSE Append(d, [key |-> k, val |-> v])
IsNot(e, k) == e.key # k
DelItem(d, k) == SelectSeq(d, LAMBDA e : IsNot(e, k))

\* A request thread enters poll: client_id = request.args.get('client_id').
PollArrive(t, id) ==
    /\ t_pc[t] = "idle"
    /\ p_arrivals + Cardinality({u \in PollThreads :
                                    t_pc[u] \in {"load", "store"}}) < MaxPolls
    /\ t_pc' = [t_pc EXCEPT ![t] = "load"]
    /\ t_client_id' = [t_client_id EXCEPT ![t] = id]
    /\ UNCHANGED <<lpvars, wsvars, dvars, svars, connection_count,
                   p_message_count, p_clients, t_reg, t_n, p_arrivals, p_log,
                   chk_pc, chk_left, disconnected, p_clock>>

\* connection_count += 1 reads the variable ...
PollLoad(t) ==
    /\ t_pc[t] = "load"
    /\ t_reg' = [t_reg EXCEPT ![t] = connection_count]
    /\ t_pc' = [t_pc EXCEPT ![t] = "store"]
    /\ UNCHANGED <<lpvars, wsvars, dvars, svars, connection_count,
                   p_message_count, p_clients, t_client_id, t_n, p_arrivals,
                   p_log, chk_pc, chk_left, disconnected, p_clock>>

\* ... and stores the sum: with no lock around it, other threads run between.
PollStore(t) ==
    /\ t_pc[t] = "store"
    /\ connection_count' = t_reg[t] + 1
    /\ t_reg' = [t_reg EXCEPT ![t] = 0]
    /\ p_arrivals' = p_arrivals + 1
    /\ t_n' = [t_n EXCEPT ![t] = p_arrivals + 1]
    /\ t_pc' = [t_pc EXCEPT ![t] = "touch"]
    /\ UNCHANGED <<lpvars, wsvars, dvars, svars, p_message_count, p_clients,
                   t_client_id, p_log, chk_pc, chk_left, disconnected, p_clock>>

\* print(...); clients[client_id] = time.time()
PollTouch(t) ==
    /\ t_pc[t] = "touch"
    /\ p_clients' = SetItem(p_clients, t_client_id[t], p_clock)
    /\ t_pc' = [t_pc EXCEPT ![t] = "test"]
    /\ UNCHANGED <<lpvars, wsvars, dvars, svars, connection_count,
                   p_message_count, t_client_id, t_reg, t_n, p_arrivals, p_log,
                   chk_pc, chk_left, disconnected, p_clock>>

\* if connection_count % 5 == 0, on the shared variable as it is now.
IsMessageTurn(t) == connection_count % MessageEvery = 0

\* The test, and on the else branch the empty response.
PollTest(t) ==
    /\ t_pc[t] = "test"
    /\ IF IsMessageTurn(t)
       THEN /\ t_pc' = [t_pc EXCEPT ![t] = "mload"]
            /\ p_log' = p_log
       ELSE /\ t_pc' = [t_pc EXCEPT ![t] = "idle"]
            /\ p_log' = p_log \cup
                   {[n |-> t_n[t], has_message |-> FALSE, message_num |-> 0]}
    /\ UNCHANGED <<lpvars, wsvars, dvars, svars, connection_count,
                   p_message_count, p_clients, t_client_id, t_reg, t_n,
                   p_arrivals, chk_pc, chk_left, disconnected, p_clock>>

\* message_count += 1 reads the variable ...
PollMsgLoad(t) ==
    /\ t_pc[t] = "mload"
    /\ t_reg' = [t_reg EXCEPT ![t] = p_message_count]
    /\ t_pc' = [t_pc EXCEPT ![t] = "mstore"]
    /\ UNCHANGED <<lpvars, wsvars, dvars, svars, connection_count,
                   p_message_count, p_clients, t_client_id, t_n, p_arrivals,
                   p_log, chk_pc, chk_left, disconnected, p_clock>>

\* ... and stores the sum.
PollMsgStore(t) ==
    /\ t_pc[t] = "mstore"
    /\ p_message_count' = t_reg[t] + 1
    /\ t_reg' = [t_reg EXCEPT ![t] = 0]
    /\ t_pc' = [t_pc EXCEPT ![t] = "ret"]
    /\ UNCHANGED <<lpvars, wsvars, dvars, svars, connection_count, p_clients,
                   t_client_id, t_n, p_arrivals, p_log, chk_pc, chk_left,
                   disconnected, p_clock>>

\* print(...); return jsonify({"has_message": True, "message_num":
\* message_count}), which reads the shared variable again.
PollReturn(t) ==
    /\ t_pc[t] = "ret"
    /\ p_log' = p_log \cup {[n |-> t_n[t], has_message |-> TRUE,
                             message_num |-> p_message_count]}
    /\ t_pc' = [t_pc EXCEPT ![t] = "idle"]
    /\ UNCHANGED <<lpvars, wsvars, dvars, svars, connection_count,
                   p_message_count, p_clients, t_client_id, t_reg, t_n,
                   p_arrivals, chk_pc, chk_left, disconnected, p_clock>>

PollHandler(t) ==
    \/ PollLoad(t)
    \/ PollStore(t)
    \/ PollTouch(t)
    \/ PollTest(t)
    \/ PollMsgLoad(t)
    \/ PollMsgStore(t)
    \/ PollReturn(t)

\* The ids whose last request is more than client_timeout old, in dict order.
IsStale(e, now) == now - e.val > client_timeout
StaleItems(d, now) == SelectSeq(d, LAMBDA e : IsStale(e, now))
Stale(d, now) == [i \in 1..Len(StaleItems(d, now)) |-> StaleItems(d, now)[i].key]

\* time.sleep(2) is over: now = time.time() and the scan of list(clients.items()).
CheckerScan ==
    /\ chk_pc = "sleep"
    /\ chk_left = 0
    /\ disconnected' = Stale(p_clients, p_clock)
    /\ IF disconnected' = <<>>
       THEN chk_pc' = "sleep" /\ chk_left' = CheckSleep
       ELSE chk_pc' = "del" /\ chk_left' = chk_left
    /\ UNCHANGED <<lpvars, wsvars, dvars, svars, connection_count,
                   p_message_count, p_clients, t_pc, t_client_id, t_reg, t_n,
                   p_arrivals, p_log, p_clock>>

\* The next turn of for client_id in disconnected: del clients[client_id].
CheckerDelete ==
    /\ chk_pc = "del"
    /\ p_clients' = DelItem(p_clients, Head(disconnected))
    /\ disconnected' = Tail(disconnected)
    /\ IF disconnected' = <<>>
       THEN chk_pc' = "sleep" /\ chk_left' = CheckSleep
       ELSE chk_pc' = "del" /\ chk_left' = chk_left
    /\ UNCHANGED <<lpvars, wsvars, dvars, svars, connection_count,
                   p_message_count, t_pc, t_client_id, t_reg, t_n, p_arrivals,
                   p_log, p_clock>>

Checker == CheckerScan \/ CheckerDelete

\* A second passes, while the checker sleeps and no request is being handled.
PollTick ==
    /\ p_clock < MaxClock
    /\ chk_pc = "sleep"
    /\ chk_left > 0
    /\ \A t \in PollThreads : t_pc[t] = "idle"
    /\ p_clock' = p_clock + 1
    /\ chk_left' = chk_left - 1
    /\ UNCHANGED <<lpvars, wsvars, dvars, svars, connection_count,
                   p_message_count, p_clients, t_pc, t_client_id, t_reg, t_n,
                   p_arrivals, p_log, chk_pc, disconnected>>

\* ============================================================= 04_sse.py
SConns == {"e1", "e2"}

\* current_event = {}
EmptyEvent == [k \in {} |-> <<>>]

EventTypes == {"news", "stock", "notification", "update"}

\* str(n) as its decimal digits.
DigitChar == <<"0", "1", "2", "3", "4", "5", "6", "7", "8", "9">>

RECURSIVE DecStr(_)
DecStr(n) ==
    IF n < Len(DigitChar) THEN <<DigitChar[n + 1]>>
    ELSE DecStr(n \div Len(DigitChar)) \o <<DigitChar[(n % Len(DigitChar)) + 1]>>

\* A line of the stream is its field prefix followed by the pieces of its
\* text; the empty line is <<>>.  A chunk is the lines of one yielded string.
Blank == <<>>
RetryLine == <<"retry: ", "3000">>
IdLine(n) == <<"id: ">> \o DecStr(n)
EventLine(type) == <<"event: ", type>>

\* data = {'id': ..., 'type': ..., 'message': ..., ...}
EventData(n, type) == [id |-> n, type |-> type]

\* json.dumps(data, ensure_ascii=False)
JsonDumps(data) ==
    <<"{", "id">> \o DecStr(data.id) \o <<"type", data.type, "message", "}">>

DataLine(data) == <<"data: ">> \o JsonDumps(data)

\* "retry: 3000\n\n"
RetryChunk == <<RetryLine, Blank>>

\* "id: ..\n" + "event: ..\n" + "data: ..\n" + "\n"
EventChunk(n, type) ==
    <<IdLine(n), EventLine(type), DataLine(EventData(n, type)), Blank>>

\* No connection yet; the client has its response and event_count = 0.
SSEInit ==
    /\ s_pc = [e \in SConns |-> "off"]
    /\ event_id = [e \in SConns |-> 0]
    /\ s_out = [e \in SConns |-> <<>>]
    /\ c_pc = "reading"
    /\ c_seen = <<>>
    /\ current_event = EmptyEvent
    /\ event_count = 0

\* GET /events: stream() returns Response(generate_events()).
SSEConnect(e) ==
    /\ s_pc[e] = "off"
    /\ s_pc' = [s_pc EXCEPT ![e] = "retry"]
    /\ event_id' = [event_id EXCEPT ![e] = 0]
    /\ s_out' = [s_out EXCEPT ![e] = <<>>]
    /\ UNCHANGED <<lpvars, wsvars, dvars, pvars, c_pc, c_seen, current_event,
                   event_count>>

\* The generator starts: event_id = 0; yield "retry: 3000\n\n".
SSEYieldRetry(e) ==
    /\ s_pc[e] = "retry"
    /\ event_id' = [event_id EXCEPT ![e] = 0]
    /\ s_out' = [s_out EXCEPT ![e] = Append(@, RetryChunk)]
    /\ s_pc' = [s_pc EXCEPT ![e] = "gen"]
    /\ UNCHANGED <<lpvars, wsvars, dvars, pvars, c_pc, c_seen, current_event,
                   event_count>>

m_NextEventId(e) ==
    (CHOOSE n \in {event_id[x] : x \in SConns} :
        \A x \in SConns : event_id[x] <= n) + 1

\* event_id += 1, on the generator's own local variable.
NextEventId(e) == event_id[e] + 1

\* One turn of while True up to yield event.
SSEYieldEvent(e, type) ==
    /\ s_pc[e] = "gen"
    /\ event_id[e] < MaxEvents
    /\ event_id' = [event_id EXCEPT ![e] = NextEventId(e)]
    /\ s_out' = [s_out EXCEPT ![e] = Append(@, EventChunk(event_id'[e], type))]
    /\ s_pc' = [s_pc EXCEPT ![e] = "sleep"]
    /\ UNCHANGED <<lpvars, wsvars, dvars, pvars, c_pc, c_seen, current_event,
                   event_count>>

\* time.sleep(random.uniform(2, 5)) is over.
SSEWake(e) ==
    /\ s_pc[e] = "sleep"
    /\ s_pc' = [s_pc EXCEPT ![e] = "gen"]
    /\ UNCHANGED <<lpvars, wsvars, dvars, pvars, event_id, s_out, c_pc, c_seen,
                   current_event, event_count>>

\* The client goes away and the generator is closed.
SSEDisconnect(e) ==
    /\ s_pc[e] \in {"gen", "sleep"}
    /\ s_pc' = [s_pc EXCEPT ![e] = "off"]
    /\ UNCHANGED <<lpvars, wsvars, dvars, pvars, event_id, s_out, c_pc, c_seen,
                   current_event, event_count>>

SSEStream(e) ==
    \/ SSEConnect(e)
    \/ SSEYieldRetry(e)
    \/ \E type \in EventTypes : SSEYieldEvent(e, type)
    \/ SSEWake(e)
    \/ SSEDisconnect(e)

\* ------------------------------------------------------------- run_client
\* line.startswith(prefix)
StartsWith(line, prefix) == line # <<>> /\ line[1] = prefix

\* current_event[key] = value
Put(ev, key, value) ==
    [k \in DOMAIN ev \cup {key} |-> IF k = key THEN value ELSE ev[k]]

\* json.loads(text) succeeds, and the result has the key 'message'.
JsonValid(text) == Len(text) >= 2 /\ text[1] = "{" /\ text[Len(text)] = "}"
HasMessage(text) == \E i \in 1..Len(text) : text[i] = "message"

\* The lines fed to the client: those of the server's chunks and others.
BadData == <<"data: ", "oops">>
NoMessageData == <<"data: ", "{", "}">>
Comment == <<": ", "ping">>
ParseLines ==
    {Blank, RetryLine, IdLine(1), EventLine("news"),
     DataLine(EventData(1, "news")), BadData, NoMessageData, Comment}

\* The branches of a non-empty line.
FieldOf(line) ==
    IF StartsWith(line, "id: ") THEN "id"
    ELSE IF StartsWith(line, "event: ") THEN "event"
    ELSE IF StartsWith(line, "data: ") THEN "data"
    ELSE "none"

m_Dispatches(ev) == TRUE

\* if 'data' in current_event
Dispatches(ev) == "data" \in DOMAIN ev

\* One turn of for line in response.iter_lines().
ClientLine(line) ==
    /\ c_pc = "reading"
    /\ Len(c_seen) < MaxLines
    /\ c_seen' = Append(c_seen, line)
    /\ IF line # <<>>
       THEN /\ current_event' =
                  IF FieldOf(line) = "none" THEN current_event
                  ELSE Put(current_event, FieldOf(line), Tail(line))
            /\ UNCHANGED <<event_count, c_pc>>
       ELSE IF Dispatches(current_event)
            THEN /\ event_count' = event_count + 1
                 /\ IF /\ "data" \in DOMAIN current_event
                       /\ JsonValid(current_event["data"])
                       /\ ~HasMessage(current_event["data"])
                    THEN \* data['message'] raises KeyError, which nothing catches
                         /\ c_pc' = "crashed"
                         /\ current_event' = current_event
                    ELSE /\ c_pc' = c_pc
                         /\ current_event' = EmptyEvent
            ELSE /\ current_event' = EmptyEvent
                 /\ UNCHANGED <<event_count, c_pc>>
    /\ UNCHANGED <<lpvars, wsvars, dvars, pvars, s_pc, event_id, s_out>>

\* The two servers are separate programs: each specification runs one of them
\* and leaves the other's state as constructed.
DIdle ==
    /\ d_reg = {}
    /\ d_conn = 0
    /\ d_count = 0
    /\ d_raised = FALSE

Init == LPInit /\ WSInit /\ DIdle /\ PollInit /\ SSEInit

\* The server with run_client clients.
Next ==
    \/ Generator
    \/ Tick
    \/ \E c \in Clients : Handler(c)
    \/ \E c \in Clients : Client(c)

Spec == Init /\ [][Next]_vars

\* The server with a run_client client some of whose requests fail.
NextFlaky ==
    \/ Generator
    \/ Tick
    \/ \E c \in FlakyClients : Handler(c)
    \/ \E c \in FlakyClients : Client(c)
    \/ \E c \in FlakyClients : ClientFail(c)

SpecFlaky == Init /\ [][NextFlaky]_vars

\* The server with one caller of /poll that chooses its cursor.
NextReq ==
    \/ Generator
    \/ Tick
    \/ \E c \in RawCallers : Handler(c)
    \/ \E c \in RawCallers : Raw(c)

SpecReq == Init /\ [][NextReq]_vars

\* The same server with handler threads that may be resumed late.
NextLate ==
    \/ Generator
    \/ TickLate
    \/ \E c \in RawCallers : Handler(c)
    \/ \E c \in RawCallers : Raw(c)

SpecLate == Init /\ [][NextLate]_vars

\* The same, with callers that may go away while their request is held.
NextGone ==
    \/ NextReq
    \/ \E c \in RawCallers : PeerGone(c)

SpecGone == Init /\ [][NextGone]_vars

\* The registry operation on its own.
InitDiscard == LPInit /\ WSInit /\ DInit /\ PollInit /\ SSEInit

SpecDiscard == InitDiscard /\ [][Unregister]_vars

\* The WebSocket server.
SpecWS == Init /\ [][NextWS]_vars

\* Threads are scheduled and time passes: the fairness the interpreter's thread
\* scheduling and the clock give the server.
FairSpecReq ==
    /\ SpecReq
    /\ WF_vars(Tick)
    /\ WF_vars(Generator)
    /\ \A c \in RawCallers : WF_vars(Handler(c))

\* The server with run_client clients that are started at any moment and then
\* loop without delay.
LiveInit ==
    /\ LPInitWith([c \in Clients |-> "off"])
    /\ WSInit /\ DIdle /\ PollInit /\ SSEInit

NextLive ==
    \/ Generator
    \/ TickPrompt
    \/ \E c \in Clients : Handler(c)
    \/ \E c \in Clients : Client(c)
    \/ \E c \in Clients : ClientStart(c)

SpecLive == LiveInit /\ [][NextLive]_vars

\* The server and the started clients keep running and time passes; every
\* client is started at some moment.  A started client and the server threads
\* are never idle without time passing, so fairness of the whole step suffices.
FairSpecLive ==
    /\ SpecLive
    /\ WF_vars(NextLive)
    /\ \A c \in Clients : WF_vars(ClientStart(c))

\* The polling server: concurrent request threads, within one second.
NextPoll ==
    \/ \E t \in PollThreads : \E id \in PollClients : PollArrive(t, id)
    \/ \E t \in PollThreads : PollHandler(t)

SpecPoll == Init /\ [][NextPoll]_vars

\* The polling server over time: the checker thread and one request thread.
NextChecker ==
    \/ Checker
    \/ PollTick
    \/ \E t \in CheckedThreads : \E id \in PollClients : PollArrive(t, id)
    \/ \E t \in CheckedThreads : PollHandler(t)

SpecChecker == Init /\ [][NextChecker]_vars

\* The SSE server with its connections.
NextSSE == \E e \in SConns : SSEStream(e)

SpecSSE == Init /\ [][NextSSE]_vars

\* The SSE client's loop on any sequence of lines.
NextParse == \E line \in ParseLines : ClientLine(line)

SpecParse == Init /\ [][NextParse]_vars

\* ================================================================= claims
\* An item with id > cursor was already in the log when the request arrived.
HadItems(c) == \E i \in 1..start_len[c] : messages[i].id > h_last_id[c]

\* C1: after any sequence of appends, interleaved with readers, the ids in the
\* log are exactly 1..n in list order, n is the number of appends performed,
\* and message_id = len(messages) outside the generator's critical section.
C1_MonotonicLog ==
    /\ \A i \in 1..Len(messages) : messages[i].id = i
    /\ Len(messages) = appends
    /\ gen_pc # "append" => message_id = Len(messages)

C1_Witness ==
    /\ Len(messages) >= 3
    /\ \A c \in Clients : received[c] # <<>>
    /\ \E c \in Clients : InFlight(c)

\* C2: for every cursor and log, the read of long_poll yields exactly the items
\* with id > cursor, in ascending id order, and changes neither messages nor
\* message_id.
C2_ReadSince ==
    [][\A c \in Clients :
         (pc[c] = "crit" /\ pc'[c] # "crit") =>
            LET r == IF pc'[c] = "resp" THEN resp'[c].messages ELSE <<>> IN
              /\ \A i \in 1..Len(r) : r[i].id > h_last_id[c] /\ r[i] \in Range(messages)
              /\ \A m \in Range(messages) : m.id > h_last_id[c] => m \in Range(r)
              /\ \A i, j \in 1..Len(r) : i < j => r[i].id < r[j].id
              /\ messages' = messages
              /\ message_id' = message_id]_vars

C2_Witness ==
    \E c \in RawCallers :
        /\ pc[c] = "resp"
        /\ resp[c].status = "new_data"
        /\ h_last_id[c] >= 1
        /\ Len(resp[c].messages) >= 2
        /\ Len(resp[c].messages) < Len(messages)

\* C3: a request that arrives with no item beyond its cursor, and for which
\* such an item is appended before its deadline, returns new_data.
C3_WakeOnAppend ==
    \A c \in RawCallers :
        (pc[c] = "resp" /\ ~HadItems(c) /\ hit[c]) => resp[c].status = "new_data"

\* C4: when long_poll returns the timed-out outcome, the log holds no item
\* with id > last_id.
C4_TimeoutMeansNoItem ==
    \A c \in RawCallers :
        (pc[c] = "resp" /\ resp[c].status = "timeout") =>
            ~ \E m \in Range(messages) : m.id > h_last_id[c]

\* C6: what a run_client client has received so far, concatenated, is a prefix
\* of the log: ids 1..k, nothing skipped, repeated or out of order.
C6_ReceivedIsPrefix ==
    \A c \in Clients :
        /\ Len(received[c]) <= Len(messages)
        /\ received[c] = SubSeq(messages, 1, Len(received[c]))
        /\ \A i \in 1..Len(received[c]) : received[c][i].id = i

C6_Witness ==
    \E c \in Clients :
        /\ Len(received[c]) >= 3
        /\ pc[c] = "resp"
        /\ resp[c].status = "timeout"

\* C7: a call that finds an item beyond its cursor already in the log returns
\* it on the first check: no sleep is executed and no time passes.
C7_FastPath ==
    \A c \in RawCallers :
        (pc[c] # "ready" /\ HadItems(c)) =>
            /\ ~slept[c]
            /\ elapsed[c] = 0
            /\ pc[c] = "resp" =>
                 /\ resp[c].status = "new_data"
                 /\ \A i \in 1..start_len[c] :
                        messages[i].id > h_last_id[c] =>
                            messages[i] \in Range(resp[c].messages)

C7_Witness ==
    \E c \in RawCallers :
        /\ pc[c] = "resp"
        /\ HadItems(c)
        /\ resp[c].status = "new_data"
        /\ h_last_id[c] + 1 = start_len[c]

\* C8: with no append while the call waits on an empty read, the call returns
\* the timed-out outcome, exactly when elapsed reaches the timeout and not
\* before, and every call does return.
C8_TimeoutFidelity ==
    /\ [](\A c \in RawCallers :
            (pc[c] = "resp" /\ resp[c].status = "timeout") => elapsed[c] = Timeout)
    /\ [](\A c \in RawCallers :
            (pc[c] = "resp" /\ ~HadItems(c) /\ Len(messages) = start_len[c])
                => resp[c].status = "timeout")
    /\ \A c \in RawCallers : InFlight(c) ~> (pc[c] = "resp")

C8_Witness ==
    \E c \in RawCallers :
        /\ pc[c] = "resp"
        /\ resp[c].status = "timeout"
        /\ Len(messages) = start_len[c]
        /\ elapsed[c] = Timeout
        /\ slept[c]

\* C5: N waiters run with M appends.  Under every interleaving each waiter,
\* re-issuing its request with its advanced cursor, receives every item
\* appended; no call waits past its timeout; and a response never misses an
\* item that was in the log when the call began.
C5_NoLostWakeup ==
    /\ [](\A c \in Clients : elapsed[c] <= Timeout)
    /\ [](\A c \in Clients :
            (pc[c] = "resp" /\ resp[c].status = "new_data") =>
                Ids(resp[c].messages) =
                    [i \in 1..Len(resp[c].messages) |-> h_last_id[c] + i])
    /\ \A c \in Clients : []<>(received[c] = messages)

C5_Witness ==
    /\ \A c \in Clients : Len(received[c]) = Len(messages)
    /\ Len(messages) >= 2
    /\ \E c \in Clients : pc[c] = "sleep" /\ elapsed[c] >= 1
    /\ last_id["c1"] = last_id["c2"]

\* Broadcast k returns in this step.
Returns(k) == bc[k] # NoCall /\ bc'[k] = NoCall

NoCrash == push_pc # "crashed" /\ \A w \in Conns : wpc[w] # "crashed"

\* C9: broadcast attempts exactly one send to each member of connected_clients
\* as it was when broadcast was called, and to no other connection; a register
\* or unregister during the broadcast changes neither its recipients nor its
\* normal return.
C9_BroadcastSnapshot ==
    /\ [](\A k \in Callers :
            /\ bc[k] # NoCall => DOMAIN bc[k].tasks = snap[k]
            /\ \A w \in Conns : att[k][w] <= 1 /\ (att[k][w] = 1 => w \in snap[k]))
    /\ [][\A k \in Callers :
            Returns(k) => /\ \A w \in Conns : att[k][w] = IF w \in snap[k] THEN 1 ELSE 0
                          /\ NoCrash']_vars

C9_Witness ==
    \E k \in Callers :
        /\ bc[k] # NoCall
        /\ AllDone(k)
        /\ snap[k] = Conns
        /\ connected_clients # Conns
        /\ \A w \in Conns : att[k][w] = 1

\* C10: when a send fails during broadcast, every member of the snapshot whose
\* own send did not fail has been sent the item when broadcast returns, and
\* broadcast returns normally to its caller.
C10_BroadcastIsolation ==
    /\ []NoCrash
    /\ [][\A k \in Callers :
            Returns(k) =>
                \A w \in snap[k] :
                    \/ bc[k].tasks[w] = "failed"
                    \/ bc[k].tasks[w] = "sent" /\ bc[k].item \in Range(inbox[w])]_vars

C10_Witness ==
    \E k \in Callers :
        /\ bc[k] # NoCall
        /\ AllDone(k)
        /\ \E w \in snap[k] : bc[k].tasks[w] = "failed"
        /\ \E w \in snap[k] : bc[k].tasks[w] = "sent" /\ bc[k].item \in Range(inbox[w])

\* A broadcast is called in this step and creates send tasks.
Starts(k) == bc[k] = NoCall /\ bc'[k] # NoCall

\* C11: a subscriber whose send failed during a broadcast has been removed from
\* connected_clients when that broadcast returns, and is not among the
\* recipients of any broadcast called after it.
C11_FailedSubscriberRemoved ==
    /\ [](dropped \cap connected_clients = {})
    /\ [][\A k \in Callers :
            Starts(k) => DOMAIN bc'[k].tasks \cap dropped = {}]_vars

\* C12: once a subscriber has been removed from connected_clients no send to
\* it is attempted or delivered, not even by a broadcast that was in progress
\* when it was removed.  Stated for the delivery, which needs an attempt:
\* an item is written only to a connection that is in connected_clients.
C12_NoDeliveryAfterRemoval ==
    [][\A w \in Conns : inbox'[w] # inbox[w] => w \in connected_clients]_vars

\* C13: the items written to one subscriber are in the order in which their
\* broadcast calls were made, whichever handlers or server_push_notifications
\* made the calls and however the calls overlap.
C13_PerSubscriberOrder ==
    \A w \in Conns :
        \A i, j \in 1..Len(inbox[w]) :
            i < j => inbox[w][i].seq < inbox[w][j].seq

C13_Witness ==
    \E w \in Conns : \E j, k \in Callers :
        /\ j # k
        /\ bc[j] # NoCall /\ bc[k] # NoCall
        /\ bc[j].item.type # "join" /\ bc[k].item.type # "join"
        /\ w \in snap[j] \cap snap[k]
        /\ bc[j].tasks[w] = "sent" /\ bc[k].tasks[w] = "sent"
        /\ Len(inbox[w]) >= 3

\* C14: every item returned to a long-poll consumer or written to a subscriber
\* is in the event log at that moment.  messages is the only log there is:
\* the WebSocket server builds each item in the call of broadcast and keeps
\* none.
C14_AppendedBeforeDelivered ==
    /\ \A c \in Clients :
          /\ Range(resp[c].messages) \subseteq Range(messages)
          /\ Range(received[c]) \subseteq Range(messages)
    /\ \A w \in Conns :
          \A i \in 1..Len(inbox[w]) :
              \E j \in 1..Len(messages) : messages[j].id = inbox[w][i].n

\* The cursor of the request in flight is negative or larger than the largest
\* id that was in the log when the request arrived.
InvalidCursor(c) == h_last_id[c] < 0 \/ h_last_id[c] > start_len[c]

\* C15: a request with an invalid cursor is answered as a request with cursor
\* 0: a read that finds the log non-empty returns new_data with every item.
C15_InvalidCursorReadsAll ==
    [][\A c \in RawCallers :
         (pc[c] = "crit" /\ pc'[c] # "crit" /\ InvalidCursor(c) /\ messages # <<>>) =>
            /\ pc'[c] = "resp"
            /\ resp'[c].status = "new_data"
            /\ resp'[c].messages = messages]_vars

\* C16: a suspended call whose connection was closed by the peer returns
\* promptly, that is, no later than the end of the sleep it was in, instead of
\* waiting out the rest of its timeout; the log is not touched by it.
C16_CancelReturnsPromptly ==
    \A c \in RawCallers :
        (InFlight(c) /\ gone_at[c] >= 0) =>
            /\ elapsed[c] - gone_at[c] <= SleepTicks
            /\ \A i \in 1..Len(messages) : messages[i].id = i

\* C17: the client's cursor starts at 0, never decreases, and changes only
\* when a response carrying messages is read, to the largest id received; a
\* timeout response or a failed request leaves it as it was.
C17_ClientCursor ==
    /\ \A c \in FlakyClients : last_id[c] = 0
    /\ [][\A c \in FlakyClients :
            /\ last_id'[c] >= last_id[c]
            /\ last_id'[c] # last_id[c] =>
                  /\ pc[c] = "resp" /\ resp[c].status = "new_data"
                  /\ \E m \in Range(resp[c].messages) : m.id = last_id'[c]
                  /\ \A m \in Range(resp[c].messages) : m.id <= last_id'[c]
            /\ (pc[c] = "resp" /\ resp[c].status = "timeout") =>
                  last_id'[c] = last_id[c]]_vars

C17_Witness ==
    \E c \in FlakyClients :
        /\ last_id[c] >= 1
        /\ pc[c] = "resp"
        /\ resp[c].status = "new_data"
        /\ Len(resp[c].messages) >= 2
        /\ h_last_id[c] = last_id[c]

\* C18: discarding a connection a second time, or one that is not in the
\* registry, raises nothing and leaves the registry as it is; the first
\* discard of a member removes exactly that member.
C18_IdempotentUnregister ==
    /\ [](~d_raised)
    /\ [][/\ d_conn \in d_reg => d_reg' = d_reg \ {d_conn}
          /\ (d_conn \notin d_reg \/ d_count >= 1) =>
                /\ d_reg' = d_reg
                /\ Cardinality(d_reg') = Cardinality(d_reg)]_dvars

C18_Witness ==
    /\ d_count >= 2
    /\ d_reg # {}
    /\ d_conn \notin d_reg
    /\ ~d_raised

Live == {w \in Conns : ws_state[w] = "open"}

\* C19: a connection is in connected_clients from the moment its handler
\* registers it until it closes, so that the registry equals the set of live
\* connections.  Stated for the live connections: every connection that has
\* been registered and is open is in connected_clients.
C19_LiveConnectionsRegistered == Live \subseteq connected_clients

\* C20: when a call that was suspended reads the log and finds items beyond
\* its cursor, it returns new_data with every one of them, however many were
\* appended while it slept, not only the first.
C20_AllItemsAtWake ==
    [][\A c \in RawCallers :
         (/\ pc[c] = "crit" /\ pc'[c] # "crit"
          /\ slept[c]
          /\ \E m \in Range(messages) : m.id > h_last_id[c]) =>
            /\ pc'[c] = "resp"
            /\ resp'[c].status = "new_data"
            /\ \A m \in Range(messages) :
                  m.id > h_last_id[c] => m \in Range(resp'[c].messages)
            /\ Len(resp'[c].messages) =
                  Cardinality({i \in 1..Len(messages) :
                                  messages[i].id > h_last_id[c]})]_vars

C20_Witness ==
    \E c \in RawCallers :
        /\ pc[c] = "resp"
        /\ slept[c]
        /\ ~HadItems(c)
        /\ resp[c].status = "new_data"
        /\ Len(resp[c].messages) >= 2
        /\ Len(messages) >= start_len[c] + 2

\* C21: the log is append-only: in every step, whether an append, a read, a
\* wait or a timeout, the log before the step is a prefix of the log after it.
C21_AppendOnly ==
    [][/\ Len(messages') >= Len(messages)
       /\ SubSeq(messages', 1, Len(messages)) = messages]_vars

C21_Witness ==
    \E c \in RawCallers :
        /\ pc[c] = "resp"
        /\ resp[c].status = "timeout"
        /\ Len(messages) >= start_len[c] + 2

\* The result of the read of c in this step, if this step is that read.
ReadBy(c) == IF pc'[c] = "resp" THEN resp'[c].messages ELSE <<>>

\* C22: the counter bump and the insertion are one critical section that
\* excludes every reader's snapshot: a reader inside its own critical section
\* finds message_id equal to the id of the last item, and every read returns
\* what a read placed after the first `appends` appends in one total order of
\* the calls returns, namely the ids from its cursor + 1 up to appends.
C22_AtomicAppend ==
    /\ [](\A c \in RawCallers :
            pc[c] = "crit" =>
                /\ lock = c
                /\ gen_pc \notin {"bump", "append"}
                /\ message_id = Len(messages)
                /\ messages # <<>> => messages[Len(messages)].id = message_id)
    /\ [](gen_pc \in {"bump", "append"} => lock = "gen")
    /\ [][\A c \in RawCallers :
            (pc[c] = "crit" /\ pc'[c] # "crit") =>
                LET from == Max2(h_last_id[c], 0)
                    n == Max2(appends - from, 0)
                IN  Ids(ReadBy(c)) = [i \in 1..n |-> from + i]]_vars

C22_Witness ==
    \E c \in RawCallers :
        /\ pc[c] = "crit"
        /\ gen_pc = "lock"
        /\ Len(messages) >= 2
        /\ h_last_id[c] = 1

\* C23: no append takes place between a waiter's empty check and the start of
\* its sleep.
C23_CheckThenSleepAtomic ==
    [][\A c \in RawCallers : pc[c] = "unlocked" => messages' = messages]_vars

\* C24: a waiter never holds the log lock while it sleeps between checks (the
\* lock is held only inside the with block), so with all waiters suspended the
\* generator that waits for the lock always gets it and completes its append.
C24_NoLockWhileSuspended ==
    /\ [](\A c \in Clients : pc[c] \in {"unlocked", "sleep"} => lock # c)
    /\ [](\A c \in Clients : lock = c => pc[c] = "crit")
    /\ (gen_pc = "lock") ~> (gen_pc = "sleep")

C24_Witness ==
    /\ gen_pc = "lock"
    /\ lock = "free"
    /\ appends >= 1
    /\ \A c \in Clients : pc[c] = "sleep" /\ sleep_left[c] > 0

\* C25: under any interleaving of concurrent /poll requests exactly the
\* requests whose number is a multiple of 5 get has_message true, the message
\* numbers returned are 1, 2, 3, ... each once, and message_count =
\* floor(connection_count / 5) after every request.
C25_EveryFifthAnswered ==
    /\ \A r \in p_log : r.has_message = (r.n % MessageEvery = 0)
    /\ \A r \in p_log : r.has_message => r.message_num = r.n \div MessageEvery
    /\ (\A t \in PollThreads : t_pc[t] = "idle")
          => p_message_count = connection_count \div MessageEvery

\* C26: check_disconnected_clients removes a client id only if the id's most
\* recent /poll request is more than client_timeout old when it is removed.
C26_RemovesOnlyStale ==
    [][\A i \in 1..Len(p_clients) :
          ~HasKey(p_clients', p_clients[i].key)
             => p_clock - p_clients[i].val > client_timeout]_vars

\* C27: a connecting client is in connected_clients before its join broadcast
\* and so is a recipient of its own join message; a disconnecting client is
\* removed before its leave broadcast, which goes to exactly the remaining
\* clients and never to the client that left.
C27_JoinSeesSelfLeaveDoesNot ==
    /\ [](\A w \in Conns : \A i \in 1..Len(inbox[w]) :
              ~(inbox[w][i].type = "leave" /\ inbox[w][i].n = client_id[w]))
    /\ [][\A w \in Conns :
            /\ (ws_state[w] = "new" /\ ws_state'[w] = "open")
                  => /\ w \in connected_clients'
                     /\ Starts(w)
                     /\ bc'[w].item.type = "join"
                     /\ snap'[w] = connected_clients'
                     /\ bc'[w].tasks[w] = "pending"
            /\ (wpc[w] = "recv" /\ wpc'[w] \in {"leave", "leave_exc", "done", "raised"})
                  => /\ connected_clients' = connected_clients \ {w}
                     /\ wpc'[w] \in {"leave", "leave_exc"}
                           => /\ bc'[w].item.type = "leave"
                              /\ DOMAIN bc'[w].tasks = connected_clients \ {w}
                     /\ wpc'[w] \in {"done", "raised"} => connected_clients \ {w} = {}
            /\ (wpc[w] = "join" /\ Returns(w) /\ bc[w].tasks[w] = "sent")
                  => bc[w].item \in Range(inbox[w])]_vars

C27_Witness ==
    \E w \in Conns :
        /\ wpc[w] = "leave"
        /\ bc[w].item.type = "leave"
        /\ snap[w] # {}
        /\ \E x \in snap[w] : bc[w].item \in Range(inbox[x])
        /\ \E i \in 1..Len(inbox[w]) :
              inbox[w][i].type = "join" /\ inbox[w][i].n = client_id[w]

\* C28: a notification number is consumed only at a tick with a client
\* connected, so the numbers broadcast are 1, 2, 3, ... without gaps or
\* repeats, and every notification broadcast has a recipient in its snapshot.
C28_NotificationNumbers ==
    /\ [](notification_count = pushed)
    /\ [](bc["push"] # NoCall
            => /\ bc["push"].item.type = "notification"
               /\ bc["push"].item.n = pushed
               /\ snap["push"] # {}
               /\ DOMAIN bc["push"].tasks = snap["push"])
    /\ [][/\ Starts("push")
                 => /\ connected_clients # {}
                    /\ bc'["push"].item.n = pushed + 1
                    /\ pushed' = pushed + 1
           /\ (connected_clients = {}
                 => notification_count' = notification_count)
           /\ (~Starts("push") => pushed' = pushed)]_vars

C28_Witness ==
    /\ bc["push"] # NoCall
    /\ bc["push"].item.n = 2
    /\ pushed = 2
    /\ \E w \in Conns : wpc[w] = "done"

\* The number that a string of decimal digits denotes.
DigitVal(ch) == (CHOOSE i \in 1..Len(DigitChar) : DigitChar[i] = ch) - 1

RECURSIVE DecVal(_)
DecVal(str) ==
    IF str = <<>> THEN 0
    ELSE DecVal(SubSeq(str, 1, Len(str) - 1)) * Len(DigitChar)
           + DigitVal(str[Len(str)])

\* The chunk is one event with the given id: an id line with that number, an
\* event line, a data line whose object carries the same id, and a blank line.
IsEventChunk(chunk, n) ==
    /\ Len(chunk) = 4
    /\ StartsWith(chunk[1], "id: ") /\ DecVal(Tail(chunk[1])) = n
    /\ StartsWith(chunk[2], "event: ") /\ chunk[2][2] \in EventTypes
    /\ StartsWith(chunk[3], "data: ") /\ JsonValid(Tail(chunk[3]))
    /\ chunk[4] = Blank

\* C29: on every SSE connection the first frame is exactly one retry
\* directive and the events that follow carry the ids 1, 2, 3, ... in order,
\* whatever the other connections do.
C29_PerConnectionIds ==
    \A e \in SConns :
        /\ s_out[e] # <<>> => s_out[e][1] = <<<<"retry: ", "3000">>, <<>>>>
        /\ \A i \in 2..Len(s_out[e]) : IsEventChunk(s_out[e][i], i - 1)
        /\ s_out[e] # <<>> => Len(s_out[e]) = event_id[e] + 1

C29_Witness ==
    /\ Len(s_out["e1"]) = 3
    /\ Len(s_out["e2"]) = 4
    /\ s_pc["e1"] = "sleep"
    /\ s_pc["e2"] = "sleep"

\* The lines since the last blank line before position i.
FrameStart(seen, i) ==
    IF \E j \in 1..(i - 1) : seen[j] = <<>>
    THEN (CHOOSE j \in 1..(i - 1) :
             seen[j] = <<>> /\ \A k \in (j + 1)..(i - 1) : seen[k] # <<>>) + 1
    ELSE 1

\* The last line of the frame ending before position i that sets the field.
LastOf(seen, i, prefix) ==
    {j \in FrameStart(seen, i)..(i - 1) :
        /\ StartsWith(seen[j], prefix)
        /\ \A k \in (j + 1)..(i - 1) : ~StartsWith(seen[k], prefix)}

\* The blank lines that end a frame with a data line.
DataFrames(seen) ==
    {i \in 1..Len(seen) : seen[i] = <<>> /\ LastOf(seen, i, "data: ") # {}}

\* C30: the client dispatches an event exactly at a blank line that ends a
\* frame with a data line: event_count is the number of such frames, a frame
\* without data (retry only) is not counted, and current_event holds only
\* fields of the lines since the last blank line.
C30_DispatchAtBlankLine ==
    /\ [](event_count = Cardinality(DataFrames(c_seen)))
    /\ [](c_pc = "reading" =>
            \A f \in {"id", "event", "data"} :
                LET at == LastOf(c_seen, Len(c_seen) + 1, f \o ": ") IN
                  /\ f \in DOMAIN current_event <=> at # {}
                  /\ \A j \in at : current_event[f] = Tail(c_seen[j]))
    /\ [][event_count' # event_count =>
            /\ event_count' = event_count + 1
            /\ c_seen' = Append(c_seen, <<>>)
            /\ "data" \in DOMAIN current_event]_vars

C30_Witness ==
    /\ Len(c_seen) = 5
    /\ c_seen[1] = <<"retry: ", "3000">>
    /\ c_seen[2] = <<>>
    /\ c_seen[5] = <<>>
    /\ event_count = 1
    /\ current_event = EmptyEvent
    /\ c_pc = "reading"

====
